---------------------------- MODULE Spec2Model ----------------------------
(***************************************************************************)
(* A model of workouts/verify_csv_mapping.py: the script that loads       *)
(* exercises.json into a case-insensitive name -> id index, scans         *)
(* WorkoutExport.csv and prints a report of the mapped and the unmapped   *)
(* exercise names.                                                        *)
(*                                                                        *)
(* A Python str is a sequence of one-character strings; None is the       *)
(* one-element sequence <<"None">>, which is no str of the model.         *)
(***************************************************************************)
EXTENDS Integers, Sequences, FiniteSets

(***************************************************************************)
(* Bounds of the model.                                                   *)
(***************************************************************************)
\* records of exercises.json in the runs of Spec
MaxRecords == 2
\* data rows of WorkoutExport.csv in the runs of Spec
MaxRows == 2
\* records of exercises.json in the runs of SpecLoad
MaxLoadRecords == 2
\* size of the largest unmapped set in the runs of SpecList
MaxListNames == 25
\* names left out of a prefix of the pool in the runs of SpecList
MaxDropped == 1

(***************************************************************************)
(* Python values and str methods.                                         *)
(***************************************************************************)
None == <<"None">>

\* the id None, as name_to_id.get gives it for a key it does not hold
NoId == "None"

\* ord(c) for the characters of the model
Code(c) ==
  CASE c = " " -> 32
    [] c = "1" -> 49
    [] c = "2" -> 50
    [] c = "5" -> 53
    [] c = "B" -> 66
    [] c = "P" -> 80
    [] c = "S" -> 83
    [] c = "a" -> 97
    [] c = "b" -> 98
    [] c = "c" -> 99
    [] c = "e" -> 101
    [] c = "h" -> 104
    [] c = "n" -> 110
    [] c = "p" -> 112
    [] c = "q" -> 113
    [] c = "r" -> 114
    [] c = "s" -> 115
    [] c = "t" -> 116
    [] c = "u" -> 117

\* str.lower() of one character
LowerChar(c) ==
  CASE c = "B" -> "b"
    [] c = "P" -> "p"
    [] c = "S" -> "s"
    [] OTHER -> c

\* str.lower()
lower(s) == [i \in 1..Len(s) |-> LowerChar(s[i])]

RECURSIVE lstrip(_)
lstrip(s) == IF s # <<>> /\ Head(s) = " " THEN lstrip(Tail(s)) ELSE s

RECURSIVE rstrip(_)
rstrip(s) ==
  IF s # <<>> /\ s[Len(s)] = " " THEN rstrip(SubSeq(s, 1, Len(s) - 1)) ELSE s

\* str.strip()
strip(s) == rstrip(lstrip(s))

\* s < t for two str: the order of the code points at the first position
\* where they differ, a proper prefix first
StrLess(s, t) ==
  \E i \in 1..Len(t) :
    /\ \A j \in 1..(i - 1) : j <= Len(s) /\ s[j] = t[j]
    /\ (i > Len(s) \/ Code(s[i]) < Code(t[i]))

\* sorted(S) for a set of str
RECURSIVE sorted(_)
sorted(S) ==
  IF S = {} THEN <<>>
  ELSE LET m == CHOOSE x \in S : \A y \in S : y = x \/ StrLess(x, y)
       IN  <<m>> \o sorted(S \ {m})

\* seq[:n]
Take(seq, n) == SubSeq(seq, 1, IF Len(seq) < n THEN Len(seq) ELSE n)

\* bool(v) of a str or None
Truthy(v) == v # None /\ v # <<>>

\* an empty dict
EmptyDict == [k \in {} |-> NoId]

\* a store that keeps the value a key already has
PutFirstWins(d, k, v) ==
  [x \in DOMAIN d \cup {k} |-> IF x \in DOMAIN d THEN d[x] ELSE v]

\* d[k] = v
Put(d, k, v) == [x \in DOMAIN d \cup {k} |-> IF x = k THEN v ELSE d[x]]

\* d.get(k)
Get(d, k) == IF k \in DOMAIN d THEN d[k] ELSE NoId

Range(seq) == {seq[i] : i \in 1..Len(seq)}


(***************************************************************************)
(* The input files.                                                       *)
(***************************************************************************)
BenchPress == <<"B", "e", "n", "c", "h", " ", "P", "r", "e", "s", "s">>
Squat == <<"S", "q", "u", "a", "t">>

\* the key of the i-th member of the JSON object (the keys of an object that
\* json.load returns are distinct)
IdOf(i) == CASE i = 1 -> "1" [] i = 2 -> "2" [] i = 3 -> "3" [] OTHER -> "4"

\* the JSON objects of at most n members whose values are drawn from
\* Names \X ExportNames, as the list of (id, data) pairs that
\* exercises_data.items() yields
Docs(Names, ExportNames, n) ==
  UNION {
    { [i \in 1..k |-> [id |-> IdOf(i), name |-> f[i][1], exportName |-> f[i][2]]]
      : f \in [1..k -> Names \X ExportNames] }
    : k \in 0..n }

\* the states of a file of the working directory
Readable(content) == [status |-> "ok", content |-> content]
Missing == [status |-> "missing", content |-> <<>>]
Malformed == [status |-> "malformed", content |-> <<>>]

\* exercises.json in the runs of Spec
JsonNames == {BenchPress}
JsonExportNames == {None, <<>>, Squat \o <<" ">>}
JsonFiles ==
  {Missing, Malformed}
    \cup {Readable(d) : d \in Docs(JsonNames, JsonExportNames, MaxRecords)}

\* exercises.json in the runs of SpecLoad
LoadNames == {BenchPress, <<" ">> \o lower(BenchPress), Squat}
LoadExportNames ==
  {None, <<>>, BenchPress, <<" ">> \o lower(BenchPress), lower(Squat) \o <<" ">>}
LoadJsonFiles ==
  {Readable(d) : d \in Docs(LoadNames, LoadExportNames, MaxLoadRecords)}

\* the header rows of WorkoutExport.csv
Columns == <<"Exercise", "Date", "Reps", "Weight(kg)", "isWarmup">>
CsvHeaders ==
  { Columns,
    <<"Date", "Reps", "Weight(kg)", "isWarmup", "Exercise">>,
    <<"Exercise", "Date", "Reps", "Weight(kg)">> }
CsvFiles == {Missing} \cup {Readable(h) : h \in CsvHeaders}

\* the cells of a data row
CsvNames == {BenchPress, lower(BenchPress), Squat \o <<" ">>, <<" ">>}
CsvDates == {<<"1">>, <<"2", " ">>}
\* a data row is complete or one field shorter than the header
Shortfalls == {0, 1}
Cell(column, exercise, date) ==
  CASE column = "Exercise" -> exercise
    [] column = "Date" -> date
    [] column = "Reps" -> <<"5">>
    [] column = "Weight(kg)" -> <<"5", "5">>
    [] column = "isWarmup" -> <<"1">>

(***************************************************************************)
(* The state of the script.                                               *)
(***************************************************************************)
\* (exercises_data, name_to_id, csv_exercises, csv_workouts,
\* unmapped_exercises and mapped_count are the variables of the script, lines
\* 20, 23, 35, 36, 37 and 65; writes records the stores of lines 26 and 29)
VARIABLES
  pc,                 \* the statement the script is at
  err,                \* the exception that ended the run, "" when none
  exercises_json,     \* the file exercises.json
  csv_file,           \* the file WorkoutExport.csv: its header row
  rows_read,          \* data rows the csv.DictReader has yielded
  exercises_data,     \* items of the loaded JSON object, in document order
  next_record,        \* position of the loop of line 24 in exercises_data
  name_to_id,         \* dict: normalized name -> id
  writes,             \* the stores into name_to_id, in the order made
  csv_exercises,      \* set of the trimmed exercise names of the CSV
  csv_workouts,       \* defaultdict(list): date -> list of log rows
  unmapped_exercises, \* set of the exercise names that have no mapping
  mapped_count,       \* line 65
  output              \* the lines printed, in order

vars ==
  << pc, err, exercises_json, csv_file, rows_read, exercises_data,
     next_record, name_to_id, writes, csv_exercises, csv_workouts,
     unmapped_exercises, mapped_count, output >>

\* a printed line: its kind and the values formatted into it
Line(kind, name, id, n, of) ==
  [kind |-> kind, name |-> name, id |-> id, n |-> n, of |-> of]

Emit(lines) == output' = output \o lines

\* an uncaught exception ends the process
Raise(exception) == pc' = "aborted" /\ err' = exception

Start(json, csv) ==
  /\ pc = "load_json"
  /\ err = ""
  /\ exercises_json = json
  /\ csv_file = csv
  /\ rows_read = 0
  /\ exercises_data = <<>>
  /\ next_record = 1
  /\ name_to_id = EmptyDict
  /\ writes = <<>>
  /\ csv_exercises = {}
  /\ csv_workouts = EmptyDict
  /\ unmapped_exercises = {}
  /\ mapped_count = 0
  /\ output = <<>>

Init == \E json \in JsonFiles, csv \in CsvFiles : Start(json, csv)

(***************************************************************************)
(* Lines 17-31: the mapping loader.                                       *)
(***************************************************************************)
\* lines 19-20: open and json.load
LoadJson ==
  /\ pc = "load_json"
  /\ IF exercises_json.status = "ok"
       THEN /\ exercises_data' = exercises_json.content
            /\ pc' = "build_index"
            /\ err' = err
       ELSE /\ Raise(IF exercises_json.status = "missing"
                       THEN "FileNotFoundError" ELSE "JSONDecodeError")
            /\ exercises_data' = exercises_data
  /\ UNCHANGED << exercises_json, csv_file, rows_read, next_record, name_to_id,
                  writes, csv_exercises, csv_workouts, unmapped_exercises,
                  mapped_count, output >>

\* line 25
NormalizedName(data) == strip(lower(data.name))

\* line 28: the condition of the exportName branch
AliasBranch(data, name) ==
  Truthy(data.exportName) /\ lower(data.exportName) # name

\* line 29: the key of the alias
AliasKey(data) == strip(lower(data.exportName))

\* lines 25-29: the stores one record makes, in order
RecordWrites(item) ==
  LET name == NormalizedName(item)
  IN  << [key |-> name, id |-> item.id, via |-> "name"] >>
      \o (IF AliasBranch(item, name)
            THEN << [key |-> AliasKey(item), id |-> item.id, via |-> "exportName"] >>
            ELSE <<>>)

RECURSIVE Store(_, _)
Store(d, ws) ==
  IF ws = <<>> THEN d ELSE Store(Put(d, Head(ws).key, Head(ws).id), Tail(ws))

\* lines 24-29: one iteration of the loop over exercises_data.items()
LoadRecord ==
  /\ pc = "build_index"
  /\ next_record <= Len(exercises_data)
  /\ LET ws == RecordWrites(exercises_data[next_record])
     IN  /\ name_to_id' = Store(name_to_id, ws)
         /\ writes' = writes \o ws
  /\ next_record' = next_record + 1
  /\ UNCHANGED << pc, err, exercises_json, csv_file, rows_read, exercises_data,
                  csv_exercises, csv_workouts, unmapped_exercises,
                  mapped_count, output >>

\* line 31, after the last record
LoadDone ==
  /\ pc = "build_index"
  /\ next_record > Len(exercises_data)
  /\ Emit(<< Line("loaded", None, NoId, Len(exercises_data), 0) >>)
  /\ pc' = "open_csv"
  /\ UNCHANGED << err, exercises_json, csv_file, rows_read, exercises_data,
                  next_record, name_to_id, writes, csv_exercises, csv_workouts,
                  unmapped_exercises, mapped_count >>

NextLoad == LoadJson \/ LoadRecord \/ LoadDone

InitLoad == \E json \in LoadJsonFiles : Start(json, Readable(Columns))

SpecLoad == InitLoad /\ [][NextLoad]_vars

(***************************************************************************)
(* Lines 33-58: the CSV scanner.                                          *)
(***************************************************************************)
\* lines 39-40: open and csv.DictReader
OpenCsv ==
  /\ pc = "open_csv"
  /\ IF csv_file.status = "ok"
       THEN pc' = "scan" /\ err' = err
       ELSE Raise("FileNotFoundError")
  /\ UNCHANGED << exercises_json, csv_file, rows_read, exercises_data,
                  next_record, name_to_id, writes, csv_exercises, csv_workouts,
                  unmapped_exercises, mapped_count, output >>

Index(seq, x) == CHOOSE i \in 1..Len(seq) : seq[i] = x

\* the dict csv.DictReader yields for a data row of n fields under the header:
\* the columns past the end of the row hold restval, None (the reader skips
\* blank lines, and the rows of the model are never longer than the header)
DictRow(header, n, exercise, date) ==
  [c \in Range(header) |->
    IF Index(header, c) <= n THEN Cell(c, exercise, date) ELSE None]

\* the exception of row[column].strip(), "" when there is none
StripError(row, column) ==
  IF column \notin DOMAIN row THEN "KeyError"
  ELSE IF row[column] = None THEN "AttributeError"
  ELSE ""

\* an add of the lower-cased name
CsvExercisesAddLower(exercises, exercise_name) ==
  exercises \cup {lower(exercise_name)}

\* line 45
CsvExercisesAdd(exercises, exercise_name) == exercises \cup {exercise_name}

\* line 46: csv_workouts[date] of a defaultdict(list)
Touch(workouts, date) ==
  IF date \in DOMAIN workouts THEN workouts
  ELSE [d \in DOMAIN workouts \cup {date} |->
         IF d = date THEN <<>> ELSE workouts[d]]

\* a lookup that does not lower-case the name
HasMappingCaseSensitive(exercise_name, index) == exercise_name \in DOMAIN index

\* line 54
HasMapping(exercise_name, index) == lower(exercise_name) \in DOMAIN index

\* an add of the lower-cased name
UnmappedAddLower(unmapped, exercise_name) ==
  unmapped \cup {lower(exercise_name)}

\* line 55
UnmappedAdd(unmapped, exercise_name) == unmapped \cup {exercise_name}

\* lines 41-55: one iteration of the loop over the reader
ScanRow ==
  /\ pc = "scan"
  /\ rows_read < MaxRows
  /\ \E exercise \in CsvNames, date \in CsvDates, missing \in Shortfalls :
       LET header == csv_file.content
           row == DictRow(header, Len(header) - missing, exercise, date)
           e1 == StripError(row, "Exercise")
           e2 == StripError(row, "Date")
       IN
       IF e1 # "" \/ e2 # ""
         THEN \* lines 42-43
              /\ Raise(IF e1 # "" THEN e1 ELSE e2)
              /\ UNCHANGED << csv_exercises, csv_workouts, unmapped_exercises >>
         ELSE
           LET exercise_name == strip(row["Exercise"])
               day == strip(row["Date"])
               touched == Touch(csv_workouts, day)
           IN
           /\ csv_exercises' = CsvExercisesAdd(csv_exercises, exercise_name)
           /\ IF {"Reps", "Weight(kg)", "isWarmup"} \subseteq DOMAIN row
                THEN /\ csv_workouts' =
                          [touched EXCEPT ![day] =
                            Append(@, [name |-> exercise_name,
                                       reps |-> row["Reps"],
                                       weight |-> row["Weight(kg)"],
                                       isWarmup |-> row["isWarmup"]])]
                     /\ unmapped_exercises' =
                          IF HasMapping(exercise_name, name_to_id)
                            THEN unmapped_exercises
                            ELSE UnmappedAdd(unmapped_exercises, exercise_name)
                     /\ UNCHANGED << pc, err >>
                ELSE \* lines 48-50
                     /\ csv_workouts' = touched
                     /\ Raise("KeyError")
                     /\ UNCHANGED unmapped_exercises
  /\ rows_read' = rows_read + 1
  /\ UNCHANGED << exercises_json, csv_file, exercises_data, next_record,
                  name_to_id, writes, mapped_count, output >>

\* lines 57-58, after the last row
ScanDone ==
  /\ pc = "scan"
  /\ Emit(<< Line("found_exercises", None, NoId, Cardinality(csv_exercises), 0),
             Line("found_dates", None, NoId, Cardinality(DOMAIN csv_workouts), 0) >>)
  /\ pc' = "report_mapping"
  /\ UNCHANGED << err, exercises_json, csv_file, rows_read, exercises_data,
                  next_record, name_to_id, writes, csv_exercises, csv_workouts,
                  unmapped_exercises, mapped_count >>

(***************************************************************************)
(* Lines 60-104: the reporter.                                            *)
(***************************************************************************)
\* line 71: the slice of the unmapped listing
UnmappedListLimit == 20

\* line 90: the slice of the mapped sample
SampleLimit == 10

\* line 71
Listed(unmapped) == Take(sorted(unmapped), UnmappedListLimit)

\* a notice from the limit on
ShowsMoreFromLimit(n) == n >= UnmappedListLimit

\* line 73
ShowsMore(n) == n > UnmappedListLimit

\* line 72: one line for each listed name
UnmappedItems(listed) ==
  [i \in 1..Len(listed) |-> Line("unmapped_item", listed[i], NoId, 0, 0)]

\* lines 61-76
ReportMapping ==
  /\ pc = "report_mapping"
  /\ LET total == Cardinality(csv_exercises)
         n == Cardinality(unmapped_exercises)
     IN
     /\ mapped_count' = total - n
     /\ Emit(<< Line("mapped", None, NoId, total - n, total),
                Line("unmapped", None, NoId, n, total) >>
             \o (IF unmapped_exercises # {}
                   THEN << Line("warning", None, NoId, n, 0) >>
                        \o UnmappedItems(Listed(unmapped_exercises))
                        \o (IF ShowsMore(n)
                              THEN << Line("more", None, NoId,
                                           n - UnmappedListLimit, 0) >>
                              ELSE <<>>)
                   ELSE << Line("all_mapped", None, NoId, 0, 0) >>))
  /\ pc' = "summary"
  /\ UNCHANGED << err, exercises_json, csv_file, rows_read, exercises_data,
                  next_record, name_to_id, writes, csv_exercises, csv_workouts,
                  unmapped_exercises >>

\* f"{n/total*100:.1f}", in tenths of a percent: the nearest tenth, the even
\* one at a tie
Percent(n, total) ==
  LET q == (n * 1000) \div total
      r == (n * 1000) % total
  IN  IF 2 * r > total \/ (2 * r = total /\ q % 2 = 1) THEN q + 1 ELSE q

\* lines 78-84: line 82 divides by len(csv_exercises)
ReportSummary ==
  /\ pc = "summary"
  /\ LET total == Cardinality(csv_exercises)
         n == Cardinality(unmapped_exercises)
     IN
     IF total = 0
       THEN /\ Emit(<< Line("summary_total", None, NoId, total, 0) >>)
            /\ Raise("ZeroDivisionError")
       ELSE /\ Emit(<< Line("summary_total", None, NoId, total, 0),
                       Line("summary_mapped", None, NoId, mapped_count,
                            Percent(mapped_count, total)),
                       Line("summary_missing", None, NoId, n, Percent(n, total)),
                       Line("summary_dates", None, NoId,
                            Cardinality(DOMAIN csv_workouts), 0) >>)
            /\ pc' = "sample"
            /\ err' = err
  /\ UNCHANGED << exercises_json, csv_file, rows_read, exercises_data,
                  next_record, name_to_id, writes, csv_exercises, csv_workouts,
                  unmapped_exercises, mapped_count >>

\* a sample for every count
SampleShownAlways(count) == count >= 0

\* line 87
SampleShown(count) == count > 0

\* lines 90-92: one line for each name of the sample
SampleItems(sample, index) ==
  [i \in 1..Len(sample) |->
    Line("sample", sample[i], Get(index, lower(sample[i])), 0, 0)]

\* lines 86-92
ReportSample ==
  /\ pc = "sample"
  /\ Emit(IF SampleShown(mapped_count)
             THEN << Line("sample_header", None, NoId, 0, 0) >>
                  \o SampleItems(
                       Take(sorted(csv_exercises \ unmapped_exercises),
                            SampleLimit),
                       name_to_id)
             ELSE <<>>)
  /\ pc' = "next_steps"
  /\ UNCHANGED << err, exercises_json, csv_file, rows_read, exercises_data,
                  next_record, name_to_id, writes, csv_exercises, csv_workouts,
                  unmapped_exercises, mapped_count >>

\* lines 94-104
ReportNextSteps ==
  /\ pc = "next_steps"
  /\ Emit(<< IF unmapped_exercises # {}
               THEN Line("fix_unmapped", None, NoId, 0, 0)
               ELSE Line("ready", None, NoId, 0, 0) >>)
  /\ pc' = "done"
  /\ UNCHANGED << err, exercises_json, csv_file, rows_read, exercises_data,
                  next_record, name_to_id, writes, csv_exercises, csv_workouts,
                  unmapped_exercises, mapped_count >>

NextList == ReportMapping \/ ReportSummary \/ ReportSample \/ ReportNextSteps

Next ==
  \/ LoadJson
  \/ LoadRecord
  \/ LoadDone
  \/ OpenCsv
  \/ ScanRow
  \/ ScanDone
  \/ ReportMapping
  \/ ReportSummary
  \/ ReportSample
  \/ ReportNextSteps

Spec == Init /\ [][Next]_vars

(***************************************************************************)
(* The reporter over large unmapped sets: the state after a scan of a CSV *)
(* file whose exercise names are the set S, one row each on one date,     *)
(* against an empty exercises.json.                                       *)
(***************************************************************************)
ListChars == {"B", "P", "S", "b", "s"}

\* the exercise names of the pool: the str of at most two letters
Pool ==
  {<<>>} \cup {<<c>> : c \in ListChars} \cup {<<c, d>> : c, d \in ListChars}

Reverse(s) == [i \in 1..Len(s) |-> s[Len(s) + 1 - i]]

\* the pool in an order that is not the order of the listing: by the last
\* character first
PoolSeq ==
  LET byLast == sorted({Reverse(x) : x \in Pool})
  IN  [i \in 1..Len(byLast) |-> Reverse(byLast[i])]

RECURSIVE SubsetsUpTo(_, _)
SubsetsUpTo(S, k) ==
  IF k = 0 THEN {{}}
  ELSE LET R == SubsetsUpTo(S, k - 1)
       IN  R \cup {T \cup {x} : T \in R, x \in S}

\* the first n names of the pool, but for at most MaxDropped of them
ListInputs ==
  UNION { { Range(SubSeq(PoolSeq, 1, n)) \ T
            : T \in SubsetsUpTo(Range(SubSeq(PoolSeq, 1, n)), MaxDropped) }
          : n \in 0..MaxListNames }

LogRow(exercise_name) ==
  [name |-> exercise_name, reps |-> <<"5">>, weight |-> <<"5", "5">>,
   isWarmup |-> <<"1">>]

RowsOf(names) == [i \in 1..Len(names) |-> LogRow(names[i])]

\* the rows of the file are in the order of the pool
Scanned(S) ==
  LET rows == RowsOf(SelectSeq(PoolSeq, LAMBDA x : x \in S))
  IN
  /\ pc = "report_mapping"
  /\ err = ""
  /\ exercises_json = Readable(<<>>)
  /\ csv_file = Readable(Columns)
  /\ rows_read = Cardinality(S)
  /\ exercises_data = <<>>
  /\ next_record = 1
  /\ name_to_id = EmptyDict
  /\ writes = <<>>
  /\ csv_exercises = S
  /\ csv_workouts = IF S = {} THEN EmptyDict ELSE [d \in {<<"1">>} |-> rows]
  /\ unmapped_exercises = S
  /\ mapped_count = 0
  /\ output = << Line("loaded", None, NoId, 0, 0),
                 Line("found_exercises", None, NoId, Cardinality(S), 0),
                 Line("found_dates", None, NoId, IF S = {} THEN 0 ELSE 1, 0) >>

InitList == \E S \in ListInputs : Scanned(S)

SpecList == InitList /\ [][NextList]_vars

(***************************************************************************)
(* The properties.                                                        *)
(***************************************************************************)
\* the printed lines of a kind, in order
Printed(kind) == SelectSeq(output, LAMBDA l : l.kind = kind)

Has(kind) == \E i \in 1..Len(output) : output[i].kind = kind

\* the log rows of every date
AllLogRows == UNION {Range(csv_workouts[d]) : d \in DOMAIN csv_workouts}

RowNames == {r.name : r \in AllLogRows}

\* the loop over the reader has ended without an exception
ScanEnded ==
  \/ pc \in {"report_mapping", "summary", "sample", "next_steps", "done"}
  \/ pc = "aborted" /\ err = "ZeroDivisionError"

\* the result lines of the report
ResultKinds ==
  {"mapped", "unmapped", "warning", "unmapped_item", "more", "all_mapped",
   "summary_total", "summary_mapped", "summary_missing", "summary_dates",
   "sample_header", "sample", "fix_unmapped", "ready"}

\* an exercise name of the CSV and a name of the mapping document are the
\* same but for letter case and surrounding whitespace
Matches(x, s) == lower(strip(x)) = lower(strip(s))

\* exercises.json holds the one record "1": {"name": "Bench Press"} and the
\* CSV two rows, "bench press" and "Bench Press", on two dates
BenchPressTwice ==
  /\ exercises_data = << [id |-> "1", name |-> BenchPress, exportName |-> None] >>
  /\ DOMAIN csv_workouts = {<<"1">>, <<"2">>}
  /\ \A d \in DOMAIN csv_workouts : Len(csv_workouts[d]) = 1
  /\ RowNames = {BenchPress, lower(BenchPress)}

\* C1 as stated: the total the report gives is the number of exercise names
\* of the CSV that differ by more than letter case.
C1_CaseInsensitiveTotal ==
  Has("mapped") =>
    Printed("mapped")[1].of = Cardinality({lower(x) : x \in RowNames})

\* C1 amended: the total the report gives is the number of distinct trimmed
\* spellings of the CSV, so two spellings that differ only in letter case
\* count as two; for "bench press" and "Bench Press" on two dates against
\* the one record "Bench Press" the run reports 2 of 2 mapped, 0 unmapped
\* and 2 workout dates.
C1_LiteralSpellingsTotal ==
  Has("mapped") =>
    /\ Printed("mapped")[1].of = Cardinality(RowNames)
    /\ Printed("unmapped")[1].of = Cardinality(RowNames)
    /\ BenchPressTwice =>
         /\ Printed("mapped")[1].n = 2
         /\ Printed("mapped")[1].of = 2
         /\ Printed("unmapped")[1].n = 0
         /\ Printed("found_exercises")[1].n = 2
         /\ Printed("found_dates")[1].n = 2

C1_Witness == BenchPressTwice /\ pc = "done"

\* C2: after every row of the scan the unmapped set is a subset of the set of
\* exercise names, and once the report has computed mapped_count it is not
\* negative, it is the number of names that are not unmapped, and
\* mapped_count + |unmapped| = |names|.
C2_UnmappedSubset ==
  /\ unmapped_exercises \subseteq csv_exercises
  /\ Has("mapped") =>
       /\ mapped_count >= 0
       /\ mapped_count = Cardinality(csv_exercises \ unmapped_exercises)
       /\ mapped_count + Cardinality(unmapped_exercises)
            = Cardinality(csv_exercises)
       /\ Printed("mapped")[1].n = mapped_count
       /\ Printed("unmapped")[1].n = Cardinality(unmapped_exercises)

C2_Witness ==
  pc = "done" /\ unmapped_exercises # {} /\ mapped_count > 0 /\ rows_read = 2

\* C3 as stated: after the scan a name of the CSV is unmapped if and only if
\* no record has a name or an exportName that matches it.
C3_UnmappedIffNoMatch ==
  ScanEnded =>
    \A x \in csv_exercises :
      x \in unmapped_exercises <=>
        ~ \E i \in 1..Len(exercises_data) :
            \/ Matches(x, exercises_data[i].name)
            \/ /\ exercises_data[i].exportName # None
               /\ Matches(x, exercises_data[i].exportName)

\* a record carries the name x: as its name, or as an exportName that is
\* not the empty string
Carries(data, x) ==
  \/ Matches(x, data.name)
  \/ /\ data.exportName # None
     /\ data.exportName # <<>>
     /\ Matches(x, data.exportName)

\* C3 amended: after the scan a name of the CSV is unmapped if and only if no
\* record has a name or a non-empty exportName that matches it, and every
\* name that is not unmapped resolves through the index to the id of a record
\* that carries it.
C3_UnmappedIffNoNonEmptyMatch ==
  ScanEnded =>
    /\ \A x \in csv_exercises :
         x \in unmapped_exercises <=>
           ~ \E i \in 1..Len(exercises_data) : Carries(exercises_data[i], x)
    /\ \A x \in csv_exercises \ unmapped_exercises :
         \E i \in 1..Len(exercises_data) :
           /\ Carries(exercises_data[i], x)
           /\ Get(name_to_id, lower(x)) = exercises_data[i].id

C3_Witness ==
  /\ pc = "done"
  /\ unmapped_exercises # {}
  /\ \E x \in csv_exercises \ unmapped_exercises :
       \E i \in 1..Len(exercises_data) :
         /\ ~ Matches(x, exercises_data[i].name)
         /\ Carries(exercises_data[i], x)

NamesOf(lines) == [i \in 1..Len(lines) |-> lines[i].name]

ListingOf(L, n) ==
  /\ Len(L) = (IF n < 20 THEN n ELSE 20)
  /\ \A i, j \in 1..Len(L) : i < j => StrLess(L[i], L[j])
  /\ Range(L) \subseteq unmapped_exercises
  /\ \A x \in unmapped_exercises \ Range(L) :
       \A i \in 1..Len(L) : StrLess(L[i], x)
  /\ Has("more") <=> n > 20
  /\ Has("more") =>
       /\ Printed("more")[1].n = n - 20
       /\ \E k \in 2..Len(output) :
            output[k].kind = "more" /\ output[k - 1].kind = "unmapped_item"

\* C4: the report lists the min(n, 20) smallest unmapped names, ascending in
\* the order of the code points, each once, and prints "... and (n - 20)
\* more" after them if and only if n > 20.
C4_UnmappedListing ==
  Has("mapped") =>
    ListingOf(NamesOf(Printed("unmapped_item")),
              Cardinality(unmapped_exercises))

C4_Witness ==
  /\ Cardinality(unmapped_exercises) = 25
  /\ Len(Printed("unmapped_item")) = 20
  /\ Has("more")
  /\ Printed("more")[1].n = 5

RecordOf(id) ==
  exercises_data[CHOOSE i \in 1..Len(exercises_data) : exercises_data[i].id = id]

\* C5: no record whose exportName equals its name but for letter case makes
\* the store of the exportName branch.
C5_NoAliasForEqualExportName ==
  \A i \in 1..Len(writes) :
    writes[i].via = "exportName" =>
      lower(RecordOf(writes[i].id).exportName)
        # lower(RecordOf(writes[i].id).name)

\* C6: a run over a CSV file that has a header and no data rows does not
\* fail.
C6_EmptyCsvCompletes ==
  (exercises_json.status = "ok" /\ csv_file.status = "ok" /\ rows_read = 0)
    => pc # "aborted"

\* C7: no log row of csv_workouts holds None for a field the row lacks.
C7_NoDefaultInLogRow ==
  \A r \in AllLogRows :
    r.reps # None /\ r.weight # None /\ r.isWarmup # None

\* C8: a run that aborts has printed no result line of the report.
C8_NoPartialReport ==
  pc = "aborted" =>
    \A i \in 1..Len(output) : output[i].kind \notin ResultKinds

\* exercises.json is {} and the CSV holds the one row Exercise="Squat"
SquatAlone ==
  /\ exercises_json = Readable(<<>>)
  /\ rows_read = 1
  /\ RowNames = {Squat}

\* C9: against an empty mapping document every exercise name of the CSV is
\* unmapped, and the finished report gives 0 mapped, lists the unmapped
\* names, prints no mapped sample and ends with the fix-unmapped message;
\* for the one row "Squat" it reports 0 mapped and 1 unmapped of 1 and lists
\* "Squat".
C9_EmptyMapping ==
  (exercises_json = Readable(<<>>) /\ ScanEnded) =>
    /\ unmapped_exercises = csv_exercises
    /\ pc = "done" =>
         /\ Printed("mapped")[1].n = 0
         /\ Printed("unmapped")[1].n = Cardinality(csv_exercises)
         /\ Range(NamesOf(Printed("unmapped_item"))) = csv_exercises
         /\ ~ Has("sample_header")
         /\ ~ Has("sample")
         /\ ~ Has("all_mapped")
         /\ ~ Has("ready")
         /\ output[Len(output)].kind = "fix_unmapped"
         /\ SquatAlone =>
              /\ Printed("mapped")[1].of = 1
              /\ Printed("unmapped")[1].n = 1
              /\ Printed("unmapped")[1].of = 1
              /\ NamesOf(Printed("unmapped_item")) = << Squat >>

C9_Witness == SquatAlone /\ pc = "done"

\* record i stores the key k: under its name, or under its exportName when
\* line 28 takes the branch
StoresKey(data, k) ==
  \/ strip(lower(data.name)) = k
  \/ /\ data.exportName # None
     /\ data.exportName # <<>>
     /\ lower(data.exportName) # strip(lower(data.name))
     /\ strip(lower(data.exportName)) = k

\* the keys a record may store
KeysOf(data) ==
  {strip(lower(data.name))}
    \cup (IF data.exportName = None THEN {}
          ELSE {strip(lower(data.exportName))})

\* C10: the finished index maps every key to the id of the last record, in
\* document order, that stores the key under its name or its alias, and a
\* record stores its name before its alias.
C10_LastWriteWins ==
  pc = "open_csv" =>
    /\ \A k \in DOMAIN name_to_id :
         \E i \in 1..Len(exercises_data) :
           /\ StoresKey(exercises_data[i], k)
           /\ name_to_id[k] = exercises_data[i].id
           /\ \A j \in (i + 1)..Len(exercises_data) :
                ~ StoresKey(exercises_data[j], k)
    /\ \A i \in 1..Len(exercises_data) :
         \A k \in KeysOf(exercises_data[i]) :
           StoresKey(exercises_data[i], k) => k \in DOMAIN name_to_id
    /\ \A p, q \in 1..Len(writes) :
         (p < q /\ writes[p].id = writes[q].id) => writes[p].via = "name"

C10_Witness ==
  /\ pc = "open_csv"
  /\ \E i, j \in 1..Len(exercises_data) :
       /\ i < j
       /\ exercises_data[j].exportName # None
       /\ strip(lower(exercises_data[j].exportName))
            = strip(lower(exercises_data[i].name))
       /\ strip(lower(exercises_data[j].name))
            # strip(lower(exercises_data[i].name))
       /\ name_to_id[strip(lower(exercises_data[i].name))]
            = exercises_data[j].id
=============================================================================
